---- MODULE Spec2Model ----
(***************************************************************************)
(* Lifeguard backtest (src/lifeguard-backtest.ts): the simulation engine   *)
(* `backtest` and the threshold optimizer `findOptimalMidpoint`.           *)
(*                                                                         *)
(* Numbers.  The source computes in IEEE doubles.  Here every number is an *)
(* exact decimal  (+/-) m * 10^exp  with an unbounded significand m, so    *)
(* the arithmetic below is the real-number arithmetic the doubles          *)
(* approximate (no rounding, no overflow); NaN is kept as a value that     *)
(* poisons arithmetic and fails every comparison, as in the source         *)
(* language.  Division is exact: it is defined for divisors whose          *)
(* significand divides a power of ten, which covers every divisor the      *)
(* model uses (prices and INITIAL_CAPITAL_USD).                            *)
(***************************************************************************)
EXTENDS Integers, Sequences, FiniteSets, TLC

(***************************************************************************)
(* Exact decimal arithmetic.  dig holds the significand's decimal digits,  *)
(* least significant first; a canonical value has no zero digit at either  *)
(* end, and zero is the empty significand with exp 0.                      *)
(***************************************************************************)
NaN == [nan |-> TRUE, neg |-> FALSE, dig |-> <<>>, exp |-> 0]

Zero == [nan |-> FALSE, neg |-> FALSE, dig |-> <<>>, exp |-> 0]

\* -Infinity: only ever stored and compared (findOptimalMidpoint's first incumbent
\* return), never computed with.  Arithmetic cannot produce this value: a canonical
\* zero is not negative.
NegInfinity == [nan |-> FALSE, neg |-> TRUE, dig |-> <<>>, exp |-> 0]

RECURSIVE StripHigh(_)
StripHigh(d) ==
    IF d = <<>> \/ d[Len(d)] # 0 THEN d ELSE StripHigh(SubSeq(d, 1, Len(d) - 1))

RECURSIVE LowZeros(_, _)
LowZeros(d, k) ==
    IF k < Len(d) /\ d[k + 1] = 0 THEN LowZeros(d, k + 1) ELSE k

Norm(neg, d, e) ==
    LET h == StripHigh(d)
        z == LowZeros(h, 0)
    IN  IF h = <<>> THEN Zero
        ELSE [nan |-> FALSE, neg |-> neg, dig |-> SubSeq(h, z + 1, Len(h)), exp |-> e + z]

RECURSIVE NatDigits(_)
NatDigits(n) == IF n = 0 THEN <<>> ELSE <<n % 10>> \o NatDigits(n \div 10)

RECURSIVE DigitsNat(_)
DigitsNat(d) == IF d = <<>> THEN 0 ELSE Head(d) + 10 * DigitsNat(Tail(d))

\* The number m * 10^e, for an integer m.
Dec(m, e) == Norm(m < 0, NatDigits(IF m < 0 THEN -m ELSE m), e)

Pad(d, k) == [j \in 1..k |-> 0] \o d

RECURSIVE MulDigits(_, _, _)
MulDigits(d, n, carry) ==
    IF d = <<>> THEN NatDigits(carry)
    ELSE LET v == Head(d) * n + carry
         IN  <<v % 10>> \o MulDigits(Tail(d), n, v \div 10)

RECURSIVE AddDigits(_, _, _)
AddDigits(a, b, carry) ==
    IF a = <<>> /\ b = <<>> THEN NatDigits(carry)
    ELSE LET x == IF a = <<>> THEN 0 ELSE Head(a)
             y == IF b = <<>> THEN 0 ELSE Head(b)
             v == x + y + carry
         IN  <<v % 10>> \o AddDigits(IF a = <<>> THEN a ELSE Tail(a),
                                    IF b = <<>> THEN b ELSE Tail(b), v \div 10)

\* a - b for significands with a >= b.
RECURSIVE SubDigits(_, _, _)
SubDigits(a, b, borrow) ==
    IF a = <<>> THEN <<>>
    ELSE LET y == IF b = <<>> THEN 0 ELSE Head(b)
             v == Head(a) - y - borrow
         IN  <<IF v < 0 THEN v + 10 ELSE v>>
             \o SubDigits(Tail(a), IF b = <<>> THEN b ELSE Tail(b), IF v < 0 THEN 1 ELSE 0)

\* -1, 0, 1 as significand a is below, equal to, above b (neither has high zeros).
RECURSIVE CmpDigits(_, _)
CmpDigits(a, b) ==
    IF Len(a) # Len(b) THEN (IF Len(a) < Len(b) THEN -1 ELSE 1)
    ELSE IF a = <<>> THEN 0
    ELSE IF a[Len(a)] # b[Len(b)] THEN (IF a[Len(a)] < b[Len(b)] THEN -1 ELSE 1)
    ELSE CmpDigits(StripHigh(SubSeq(a, 1, Len(a) - 1)), StripHigh(SubSeq(b, 1, Len(b) - 1)))

RECURSIVE MulMag(_, _)
MulMag(a, b) ==
    IF b = <<>> THEN <<>>
    ELSE AddDigits(MulDigits(a, Head(b), 0), <<0>> \o MulMag(a, Tail(b)), 0)

Negate(x) == IF x.nan \/ x.dig = <<>> THEN x ELSE [x EXCEPT !.neg = ~x.neg]

Add(x, y) ==
    IF x.nan \/ y.nan THEN NaN
    ELSE LET e == IF x.exp < y.exp THEN x.exp ELSE y.exp
             a == Pad(x.dig, x.exp - e)
             b == Pad(y.dig, y.exp - e)
             c == CmpDigits(StripHigh(a), StripHigh(b))
         IN  IF x.neg = y.neg THEN Norm(x.neg, AddDigits(a, b, 0), e)
             ELSE IF c = 0 THEN Zero
             ELSE IF c > 0 THEN Norm(x.neg, SubDigits(a, b, 0), e)
             ELSE Norm(y.neg, SubDigits(b, a, 0), e)

Sub(x, y) == Add(x, Negate(y))

Mul(x, y) ==
    IF x.nan \/ y.nan THEN NaN
    ELSE Norm(x.neg # y.neg, MulMag(x.dig, y.dig), x.exp + y.exp)

\* The least k with n dividing 10^k.
RECURSIVE TenPower(_, _, _)
TenPower(n, k, p) == IF p % n = 0 THEN <<k, p \div n>> ELSE TenPower(n, k + 1, p * 10)

\* x / y, exact; y is not zero and its significand divides a power of ten.
Div(x, y) ==
    IF x.nan \/ y.nan THEN NaN
    ELSE LET t == TenPower(DigitsNat(y.dig), 0, 1)
         IN  Norm(x.neg # y.neg, MulDigits(x.dig, t[2], 0), x.exp - y.exp - t[1])

\* Comparisons; each is false when an operand is NaN.  Only Gt is ever applied to
\* -Infinity.
IsPos(x) == ~x.nan /\ ~x.neg /\ x.dig # <<>>

IsNeg(x) == ~x.nan /\ x.neg

Gt(x, y) ==
    IF x.nan \/ y.nan \/ x = NegInfinity THEN FALSE
    ELSE IF y = NegInfinity THEN TRUE
    ELSE IsPos(Sub(x, y))

Lt(x, y) == IsNeg(Sub(x, y))

Ge(x, y) == ~x.nan /\ ~y.nan /\ ~IsNeg(Sub(x, y))

(***************************************************************************)
(* Bounds of the model and the inputs it draws.                            *)
(***************************************************************************)
\* Longest sample array passed to backtest.
MaxLen == 3

\* Longest sample array passed to findOptimalMidpoint.
OptMaxLen == 2

\* Calls of backtest the caller makes on its one array.
MaxCalls == 2

\* FgiDataPoint.timestamp values (ISO strings, 4h timeframe).
Timestamps == {"2025-04-18T00:00:00Z", "2025-04-18T04:00:00Z"}

Prices == {Dec(100, 0), Dec(200, 0)}

\* Prices of an asset quoted at 10^8: the starting half of the capital buys less
\* of it than TX_FEE_SOL.
WidePrices == {Dec(100, 0), Dec(1, 8)}

\* A price that is no number (a missing or non-numeric field) reads as NaN.
OptPrices == {Dec(100, 0), Dec(200, 0), NaN}

Fgis == {Dec(30, 0), Dec(50, 0)}

\* fgiMidpoint arguments the caller passes (50 is the parameter's default).
Thresholds == {Dec(30, 0), Dec(50, 0)}

Points(ts, ps) == [timestamp : ts, price : ps, fgi : Fgis]

Arrays(S, n) == UNION {[1..k -> S] : k \in 0..n}

(***************************************************************************)
(* backtest's configuration (lines 95-98).                                 *)
(***************************************************************************)
INITIAL_CAPITAL_USD == 1000

SOL_RESERVE_AMOUNT == Dec(1, -2)

PLATFORM_FEE_RATE == Dec(9, -4)

TX_FEE_SOL == Dec(25, -6)

(***************************************************************************)
(* Line 101: data.sort((a, b) => new Date(a.timestamp).getTime()           *)
(*                             - new Date(b.timestamp).getTime()).         *)
(***************************************************************************)
\* new Date(ts).getTime(), in hours since the epoch (the comparator reads only
\* the sign of a difference).
GetTime(ts) ==
    CASE ts = "2025-04-18T00:00:00Z" -> 484704
      [] ts = "2025-04-18T04:00:00Z" -> 484708

Comparator(a, b) == GetTime(a.timestamp) - GetTime(b.timestamp)

\* An unstable sort: s goes before the elements it ties with, so every sort
\* reverses the order of equal timestamps.
RECURSIVE InsertBeforeEqual(_, _)
InsertBeforeEqual(sorted, s) ==
    IF sorted = <<>> THEN <<s>>
    ELSE IF Comparator(sorted[Len(sorted)], s) >= 0
         THEN Append(InsertBeforeEqual(SubSeq(sorted, 1, Len(sorted) - 1), s), sorted[Len(sorted)])
         ELSE Append(sorted, s)

\* Array.prototype.sort is stable: s goes after every element that does not
\* compare greater than it.
RECURSIVE InsertSorted(_, _)
InsertSorted(sorted, s) ==
    IF sorted = <<>> THEN <<s>>
    ELSE IF Comparator(sorted[Len(sorted)], s) > 0
         THEN Append(InsertSorted(SubSeq(sorted, 1, Len(sorted) - 1), s), sorted[Len(sorted)])
         ELSE Append(sorted, s)

RECURSIVE SortFrom(_, _, _)
SortFrom(d, k, acc) ==
    IF k > Len(d) THEN acc ELSE SortFrom(d, k + 1, InsertSorted(acc, d[k]))

\* No sort: the array is trusted to come in order.
SortSkipped(d) == d

SortByTimestamp(d) == SortFrom(d, 1, <<>>)

(***************************************************************************)
(* Array reads.  data[k] past the end is undefined, and reading a property *)
(* of undefined throws a TypeError; a number read from undefined is NaN.   *)
(***************************************************************************)
UndefinedPoint == [timestamp |-> "undefined", price |-> NaN, fgi |-> NaN]

At(d, k) == IF k \in DOMAIN d THEN d[k] ELSE UndefinedPoint

\* data[0]?.price: the read of a missing first sample yields undefined.
FirstReadOptional(d) == FALSE

\* Lines 104, 110: data[0].price and data[0].fgi throw when data[0] is undefined.
FirstReadThrows(d) == Len(d) = 0

(***************************************************************************)
(* backtest: initial state (lines 104-115), the per-sample step (lines     *)
(* 119-160) and the result (lines 164-186).                                *)
(***************************************************************************)
InitialSolAmount(d) == Div(Dec(INITIAL_CAPITAL_USD, 0), At(d, 1).price)

InitialPortfolio(d) ==
    [solBalance     |-> Div(InitialSolAmount(d), Dec(2, 0)),
     usdcBalance    |-> Div(Dec(INITIAL_CAPITAL_USD, 0), Dec(2, 0)),
     lastFgiScore   |-> At(d, 1).fgi,
     numTrades      |-> 0,
     winningTrades  |-> 0,
     lastTradePrice |-> At(d, 1).price]

\* Line 124.
BuyCond(s, pt, mid) == Ge(pt.fgi, mid) /\ IsPos(s.usdcBalance)

\* Line 139.
SellCond(s, pt, mid) == Lt(pt.fgi, mid) /\ Gt(s.solBalance, SOL_RESERVE_AMOUNT)

\* Line 141.
AvailableSol(s) == Sub(Sub(s.solBalance, SOL_RESERVE_AMOUNT), TX_FEE_SOL)

\* A buy that forgets line 130 (usdcBalance = 0).
BuyKeepsUsdc(s, pt) ==
    LET platformFee == Mul(s.usdcBalance, PLATFORM_FEE_RATE)
        solBought   == Div(Sub(s.usdcBalance, platformFee), pt.price)
    IN  [solBalance     |-> Add(s.solBalance, Sub(solBought, TX_FEE_SOL)),
         usdcBalance    |-> s.usdcBalance,
         lastFgiScore   |-> pt.fgi,
         numTrades      |-> s.numTrades + 1,
         winningTrades  |-> IF Lt(pt.price, s.lastTradePrice)
                            THEN s.winningTrades + 1 ELSE s.winningTrades,
         lastTradePrice |-> pt.price]

\* Lines 126-137.
Buy(s, pt) ==
    LET platformFee == Mul(s.usdcBalance, PLATFORM_FEE_RATE)
        solBought   == Div(Sub(s.usdcBalance, platformFee), pt.price)
    IN  [solBalance     |-> Add(s.solBalance, Sub(solBought, TX_FEE_SOL)),
         usdcBalance    |-> Zero,
         lastFgiScore   |-> pt.fgi,
         numTrades      |-> s.numTrades + 1,
         winningTrades  |-> IF Lt(pt.price, s.lastTradePrice)
                            THEN s.winningTrades + 1 ELSE s.winningTrades,
         lastTradePrice |-> pt.price]

\* A sell that takes the platform fee twice from the proceeds.
SellFeeTwice(s, pt) ==
    LET usdcBought  == Mul(AvailableSol(s), pt.price)
        platformFee == Mul(usdcBought, PLATFORM_FEE_RATE)
    IN  [solBalance     |-> SOL_RESERVE_AMOUNT,
         usdcBalance    |-> Add(s.usdcBalance, Sub(Sub(usdcBought, platformFee), platformFee)),
         lastFgiScore   |-> pt.fgi,
         numTrades      |-> s.numTrades + 1,
         winningTrades  |-> IF Gt(pt.price, s.lastTradePrice)
                            THEN s.winningTrades + 1 ELSE s.winningTrades,
         lastTradePrice |-> pt.price]

\* Lines 144-155.
Sell(s, pt) ==
    LET usdcBought  == Mul(AvailableSol(s), pt.price)
        platformFee == Mul(usdcBought, PLATFORM_FEE_RATE)
    IN  [solBalance     |-> SOL_RESERVE_AMOUNT,
         usdcBalance    |-> Add(s.usdcBalance, Sub(usdcBought, platformFee)),
         lastFgiScore   |-> pt.fgi,
         numTrades      |-> s.numTrades + 1,
         winningTrades  |-> IF Gt(pt.price, s.lastTradePrice)
                            THEN s.winningTrades + 1 ELSE s.winningTrades,
         lastTradePrice |-> pt.price]

\* One iteration of the loop of lines 118-161: the branch that runs, its
\* platformFee constant (lines 126, 145) and the portfolio it leaves.
Iteration(s, pt, mid) ==
    IF BuyCond(s, pt, mid)
    THEN [point |-> pt, branch |-> "buy", before |-> s, after |-> Buy(s, pt),
          platformFee |-> Mul(s.usdcBalance, PLATFORM_FEE_RATE)]
    ELSE IF SellCond(s, pt, mid) /\ IsPos(AvailableSol(s))
    THEN [point |-> pt, branch |-> "sell", before |-> s, after |-> Sell(s, pt),
          platformFee |-> Mul(Mul(AvailableSol(s), pt.price), PLATFORM_FEE_RATE)]
    ELSE [point |-> pt, branch |-> "none", before |-> s,
          after |-> [s EXCEPT !.lastFgiScore = pt.fgi], platformFee |-> Zero]

ProcessPoint(s, pt, mid) == Iteration(s, pt, mid).after

RECURSIVE GCD(_, _)
GCD(a, b) == IF b = 0 THEN a ELSE GCD(b, a % b)

\* A win rate that counts a run without trades as all wins.
WinRateNoTradesFull(winning, trades) ==
    IF trades > 0
    THEN LET g == GCD(100 * winning, trades)
         IN  [num |-> (100 * winning) \div g, den |-> trades \div g]
    ELSE [num |-> 100, den |-> 1]

\* Line 181: (winningTrades / numTrades) * 100, as a fraction in lowest terms.
WinRate(winning, trades) ==
    IF trades > 0
    THEN LET g == GCD(100 * winning, trades)
         IN  [num |-> (100 * winning) \div g, den |-> trades \div g]
    ELSE [num |-> 0, den |-> 1]

\* Line 166 and line 170: ((v - INITIAL_CAPITAL_USD) / INITIAL_CAPITAL_USD) * 100.
ReturnPct(v) ==
    Mul(Div(Sub(v, Dec(INITIAL_CAPITAL_USD, 0)), Dec(INITIAL_CAPITAL_USD, 0)), Dec(100, 0))

\* Lines 164-186, for the sorted array d and the portfolio s the loop ended in.
RunResult(d, s, mid) ==
    LET finalPrice          == At(d, Len(d)).price
        finalPortfolioValue == Add(Mul(s.solBalance, finalPrice), s.usdcBalance)
        finalBaselineValue  == Mul(InitialSolAmount(d), finalPrice)
    IN  [startDate              |-> At(d, 1).timestamp,
         endDate                |-> At(d, Len(d)).timestamp,
         startingPrice          |-> At(d, 1).price,
         endingPrice            |-> finalPrice,
         baselineReturn         |-> ReturnPct(finalBaselineValue),
         strategyReturn         |-> ReturnPct(finalPortfolioValue),
         numTrades              |-> s.numTrades,
         winningTrades          |-> s.winningTrades,
         winRate                |-> WinRate(s.winningTrades, s.numTrades),
         fgiMidpoint            |-> mid,
         endingSolBalance       |-> s.solBalance,
         endingUsdcBalance      |-> s.usdcBalance,
         totalPortfolioValueUSD |-> finalPortfolioValue]

RECURSIVE RunLoop(_, _, _, _)
RunLoop(d, k, s, mid) ==
    IF k > Len(d) THEN s ELSE RunLoop(d, k + 1, ProcessPoint(s, d[k], mid), mid)

\* Lines 104-186: what backtest returns once it has sorted its array.
BacktestSorted(d, mid) == RunResult(d, RunLoop(d, 2, InitialPortfolio(d), mid), mid)

\* backtest(d, mid) as a function of the array as passed (d is not empty).
Backtest(d, mid) == BacktestSorted(SortByTimestamp(d), mid)

(***************************************************************************)
(* findOptimalMidpoint (lines 192-207).                                    *)
(***************************************************************************)
\* Line 197: the first and the last candidate.
MIDPOINT_FROM == 20

MIDPOINT_TO == 80

\* A bestMidpoint left at zero instead of the documented default.
IncumbentUnset == [bestMidpoint |-> 0, bestReturn |-> NegInfinity]

\* Lines 193-194: the incumbent before any candidate is tried.
InitialIncumbent == [bestMidpoint |-> 50, bestReturn |-> NegInfinity]

\* Line 197: the loop's condition.
LoopCond(m) == m <= MIDPOINT_TO

\* A comparison that also replaces the incumbent on an equal return.
ImprovesOrTies(ret, best) == Gt(ret, best) \/ (~ret.nan /\ ret = best)

\* Line 200.
Improves(ret, best) == Gt(ret, best)

(***************************************************************************)
(* State.                                                                  *)
(*   data        the caller's array (backtest sorts it in place)           *)
(*   threshold   the fgiMidpoint argument the caller passes to backtest    *)
(*   pc          "idle": the caller is between calls; "loop": backtest is  *)
(*               in its loop; "opt": findOptimalMidpoint is in its loop;   *)
(*               "optDone": it has returned; "threw": a TypeError reached  *)
(*               the caller                                                *)
(*   calls       calls of backtest made so far                             *)
(*   i           the loop index of backtest (1-based: the source's i + 1)  *)
(*   pf          backtest's locals: solBalance, usdcBalance, lastFgiScore, *)
(*               numTrades, winningTrades, lastTradePrice                  *)
(*   midpoint, bestMidpoint, bestReturn   findOptimalMidpoint's locals     *)
(*   returned    what findOptimalMidpoint returned                         *)
(* History (written, never read by the program):                           *)
(*   passed      the array as it was when the running call got it          *)
(*   trace       one record per loop iteration of the running (or last)    *)
(*               call of backtest                                          *)
(*   log         one record per call of backtest that has returned         *)
(*   returns     the strategyReturn of each candidate tried so far         *)
(***************************************************************************)
VARIABLES data, threshold, pc, calls, i, pf, midpoint, bestMidpoint, bestReturn,
          returned, passed, trace, log, returns

vars == <<data, threshold, pc, calls, i, pf, midpoint, bestMidpoint, bestReturn,
          returned, passed, trace, log, returns>>

btVars == <<calls, i, pf, trace, log>>

optVars == <<midpoint, bestMidpoint, bestReturn, returned, returns>>

NoPortfolio ==
    [solBalance |-> Zero, usdcBalance |-> Zero, lastFgiScore |-> Zero,
     numTrades |-> 0, winningTrades |-> 0, lastTradePrice |-> Zero]

InitWith(arrays, thresholds) ==
    /\ data \in arrays
    /\ threshold \in thresholds
    /\ pc = "idle"
    /\ calls = 0
    /\ i = 0
    /\ pf = NoPortfolio
    /\ midpoint = 0
    /\ bestMidpoint = 0
    /\ bestReturn = Zero
    /\ returned = 0
    /\ passed = data
    /\ trace = <<>>
    /\ log = <<>>
    /\ returns = <<>>

Init == InitWith(Arrays(Points(Timestamps, Prices), MaxLen), Thresholds)

InitWide == InitWith(Arrays(Points(Timestamps, WidePrices), MaxLen), Thresholds)

\* findOptimalMidpoint passes its own candidates: threshold is not read.
InitOpt == InitWith(Arrays(Points(Timestamps, OptPrices), OptMaxLen), {Zero})

(***************************************************************************)
(* backtest, step by step.                                                 *)
(***************************************************************************)
\* Lines 90-115: the call sorts the caller's array in place, then reads data[0].
Call ==
    /\ pc = "idle"
    /\ calls < MaxCalls
    /\ calls' = calls + 1
    /\ passed' = data
    /\ data' = SortByTimestamp(data)
    /\ trace' = <<>>
    /\ IF FirstReadThrows(data')
       THEN /\ pc' = "threw"
            /\ UNCHANGED <<i, pf>>
       ELSE /\ pc' = "loop"
            /\ i' = 2
            /\ pf' = InitialPortfolio(data')
    /\ UNCHANGED <<threshold, log>>
    /\ UNCHANGED optVars

\* Lines 118-161: one iteration.
Step ==
    /\ pc = "loop"
    /\ i <= Len(data)
    /\ trace' = Append(trace, Iteration(pf, data[i], threshold))
    /\ pf' = trace'[Len(trace')].after
    /\ i' = i + 1
    /\ UNCHANGED <<data, threshold, pc, calls, passed, log>>
    /\ UNCHANGED optVars

\* Lines 163-186: the loop is over; the result goes back to the caller.
Return ==
    /\ pc = "loop"
    /\ i > Len(data)
    /\ pc' = "idle"
    /\ log' = Append(log, [passed   |-> passed,
                           midpoint |-> threshold,
                           result   |-> RunResult(data, pf, threshold)])
    /\ UNCHANGED <<data, threshold, calls, i, pf, passed, trace>>
    /\ UNCHANGED optVars

Next == Call \/ Step \/ Return

Spec == Init /\ [][Next]_vars

SpecWide == InitWide /\ [][Next]_vars

(***************************************************************************)
(* findOptimalMidpoint, one candidate per step; each candidate is one call *)
(* of backtest on the caller's array.                                      *)
(***************************************************************************)
\* Lines 193-197.
OptCall ==
    /\ pc = "idle"
    /\ pc' = "opt"
    /\ bestMidpoint' = InitialIncumbent.bestMidpoint
    /\ bestReturn' = InitialIncumbent.bestReturn
    /\ midpoint' = MIDPOINT_FROM
    /\ passed' = data
    /\ UNCHANGED <<data, threshold, returned, returns>>
    /\ UNCHANGED btVars

\* Lines 197-204.
OptIter ==
    /\ pc = "opt"
    /\ LoopCond(midpoint)
    /\ data' = SortByTimestamp(data)
    /\ IF FirstReadThrows(data')
       THEN /\ pc' = "threw"
            /\ UNCHANGED <<midpoint, bestMidpoint, bestReturn, returns>>
       ELSE /\ returns' =
                  Append(returns, BacktestSorted(data', Dec(midpoint, 0)).strategyReturn)
            /\ IF Improves(returns'[Len(returns')], bestReturn)
               THEN /\ bestReturn' = returns'[Len(returns')]
                    /\ bestMidpoint' = midpoint
               ELSE UNCHANGED <<bestReturn, bestMidpoint>>
            /\ midpoint' = midpoint + 1
            /\ pc' = "opt"
    /\ UNCHANGED <<threshold, returned, passed>>
    /\ UNCHANGED btVars

\* Line 206.
OptReturn ==
    /\ pc = "opt"
    /\ ~LoopCond(midpoint)
    /\ pc' = "optDone"
    /\ returned' = bestMidpoint
    /\ UNCHANGED <<data, threshold, midpoint, bestMidpoint, bestReturn, passed, returns>>
    /\ UNCHANGED btVars

NextOpt == OptCall \/ OptIter \/ OptReturn

SpecOpt == InitOpt /\ [][NextOpt]_vars

(***************************************************************************)
(* Properties.  Each step of backtest appends one record to trace, and each *)
(* return one record to log, so a property of every step (of every result) *)
(* is a property of the last record in every state that follows a step (a *)
(* return).                                                                *)
(***************************************************************************)
JustStepped == pc = "loop" /\ trace # <<>>

LastStep == trace[Len(trace)]

JustReturned == pc = "idle" /\ log # <<>>

LastCall == log[Len(log)]

NonNegative(x) == Ge(x, Zero)

PricesPositive(d) == \A k \in DOMAIN d : IsPos(d[k].price)

\* Line 165: the portfolio's value at a price.
ValueAt(s, price) == Add(Mul(s.solBalance, price), s.usdcBalance)

Reorderings(n) == {p \in [1..n -> 1..n] : \A a, b \in 1..n : a # b => p[a] # p[b]}

Permuted(d, p) == [k \in 1..Len(d) |-> d[p[k]]]

DistinctTimes(d) ==
    \A a, b \in DOMAIN d : a # b => GetTime(d[a].timestamp) # GetTime(d[b].timestamp)

\* The side of the threshold a sample's fgi is on.
Side(pt, mid) == IF Ge(pt.fgi, mid) THEN "high" ELSE IF Lt(pt.fgi, mid) THEN "low" ELSE "neither"

\* Steps j..k of the running call saw samples on one side of the threshold.
SameSide(j, k) == \A m \in j..k : Side(trace[m].point, threshold) = Side(trace[j].point, threshold)

\* The fields claim C9 names.
Holdings(s) == <<s.solBalance, s.usdcBalance, s.numTrades, s.winningTrades, s.lastTradePrice>>

\* C1: with all prices positive, solBalance and usdcBalance are >= 0 after every
\* step of backtest and in every result it returns.
C1_BalancesNonNegative ==
    PricesPositive(data) =>
        /\ JustStepped =>
              /\ NonNegative(LastStep.after.solBalance)
              /\ NonNegative(LastStep.after.usdcBalance)
        /\ JustReturned =>
              /\ NonNegative(LastCall.result.endingSolBalance)
              /\ NonNegative(LastCall.result.endingUsdcBalance)

\* C2 as stated: in every result, winRate is 0 if and only if numTrades is 0.
C2_WinRateZeroIffNoTrades ==
    JustReturned =>
        ((LastCall.result.winRate.num = 0) <=> (LastCall.result.numTrades = 0))

\* C2 as amended: in every result, winRate is 0 if and only if winningTrades is 0,
\* which covers numTrades = 0.
C2_WinRateZeroIffNoWins ==
    JustReturned =>
        /\ (LastCall.result.winRate.num = 0) <=> (LastCall.result.winningTrades = 0)
        /\ LastCall.result.numTrades = 0 => LastCall.result.winRate.num = 0

C2_Witness ==
    /\ JustReturned
    /\ LastCall.result.numTrades > 0
    /\ LastCall.result.winningTrades = 0
    /\ LastCall.result.winRate.num = 0

\* C3 as stated: the result of a call equals the result of backtest on every
\* permutation of the array it was passed, equal timestamps included.
C3_PermutationInvariant ==
    JustReturned =>
        \A p \in Reorderings(Len(LastCall.passed)) :
            Backtest(Permuted(LastCall.passed, p), LastCall.midpoint) = LastCall.result

\* C3 as amended: the same, for arrays whose timestamps are pairwise distinct.
C3_PermutationInvariantDistinct ==
    (JustReturned /\ DistinctTimes(LastCall.passed)) =>
        \A p \in Reorderings(Len(LastCall.passed)) :
            Backtest(Permuted(LastCall.passed, p), LastCall.midpoint) = LastCall.result

C3_Witness ==
    /\ JustReturned
    /\ Len(LastCall.passed) >= 2
    /\ DistinctTimes(LastCall.passed)
    /\ LastCall.passed # SortByTimestamp(LastCall.passed)
    /\ LastCall.result.numTrades > 0

\* C4: two calls in succession on the same array with the same threshold return
\* results equal in every field.
C4_RepeatedCallSameResult ==
    (JustReturned /\ Len(log) >= 2 /\ log[Len(log) - 1].midpoint = LastCall.midpoint) =>
        LastCall.result = log[Len(log) - 1].result

C4_Witness ==
    /\ Len(log) >= 2
    /\ log[1].passed # log[2].passed
    /\ ~DistinctTimes(log[1].passed)
    /\ log[2].result.numTrades > 0

\* C5: findOptimalMidpoint returns an integer in 20..80 for every array that is not
\* empty, also when no candidate's return compares greater than -Infinity.
C5_ReturnedInRange ==
    pc = "optDone" => returned \in 20..80

C5_Witness ==
    /\ pc = "optDone"
    /\ bestReturn = NegInfinity
    /\ returned = 50
    /\ Len(returns) = 61

\* C6: when no candidate's return is NaN, findOptimalMidpoint returns the lowest
\* candidate in 20..80 whose strategyReturn is the greatest of all 61.
C6_LowestBestCandidate ==
    (pc = "optDone" /\ \A k \in DOMAIN returns : ~returns[k].nan) =>
        /\ Len(returns) = 61
        /\ returned \in 20..80
        /\ \A t \in 20..80 : ~Gt(returns[t - 19], returns[returned - 19])
        /\ \A t \in 20..80 : t < returned => Lt(returns[t - 19], returns[returned - 19])

C6_Witness ==
    /\ pc = "optDone"
    /\ \A k \in DOMAIN returns : ~returns[k].nan
    /\ returned > 20
    /\ \E t \in 20..80 : t > returned /\ returns[t - 19] = returns[returned - 19]

\* The fees of one step, in stable units at the step's price: the platform fee plus
\* TX_FEE_SOL, when a conversion ran.
FeesOf(r) ==
    IF r.branch = "none" THEN Zero
    ELSE Add(r.platformFee, Mul(TX_FEE_SOL, r.point.price))

C8_EmptyInputThrows ==
    (Len(data) = 0 /\ calls > 0) => (pc = "threw" /\ log = <<>>)

C8_Witness ==
    /\ pc = "threw"
    /\ calls = 1
    /\ Len(data) = 0

\* C9: in a stretch of consecutive samples on one side of the threshold, after a
\* step that traded, every later step of the stretch trades nothing and leaves
\* solBalance, usdcBalance, numTrades, winningTrades and lastTradePrice unchanged.
C9_OneTradePerStretch ==
    JustStepped =>
        \A j \in 1..(Len(trace) - 1) :
            (SameSide(j, Len(trace)) /\ trace[j].branch # "none") =>
                /\ LastStep.branch = "none"
                /\ Holdings(LastStep.after) = Holdings(LastStep.before)

C9_Witness ==
    /\ JustStepped
    /\ \E j \in 1..(Len(trace) - 1) :
          /\ SameSide(j, Len(trace))
          /\ trace[j].branch = "sell"

\* C10: backtest leaves the caller's array as it was passed.
C10_CallerArrayUnchanged ==
    data = passed
====
